---- MODULE Spec2Model ----
(***************************************************************************)
(* Model of the PsyMP3 threading tools:                                    *)
(*   scripts/check_threading_patterns.py  (ThreadingPatternChecker, main)  *)
(*   scripts/analyze_threading_safety.py  (ThreadingSafetyAnalyzer)        *)
(*                                                                         *)
(* A source text is a non-empty sequence of lines (content.split('\n')),   *)
(* a line is a sequence of tokens.  A token is either a word (a maximal    *)
(* run of \w characters) or a piece of punctuation; white space between    *)
(* tokens is not represented.  Every regular expression of the scripts is  *)
(* an operator over token sequences that matches what the expression       *)
(* matches on the text the tokens spell.                                   *)
(***************************************************************************)
EXTENDS Integers, Sequences, FiniteSets, TLC

VARIABLES
    script,       \* the script this run executes
    files,        \* the paths handed to the script: [path, kind, text]
    strict_mode,  \* ThreadingPatternChecker.strict_mode
    c_pc,         \* checker process: "main", "exited", "crashed"
    c_i,          \* number of paths main()'s loop has taken
    issues,       \* ThreadingPatternChecker.issues
    exit_code,    \* process exit status of the checker, -1 while running
    c_stderr,     \* paths main() reported on stderr
    c_returned,   \* paths for which check_file returned normally
    c_analyzed,   \* <<path, class>> handed to analyze_class_threading_pattern
    c_found,      \* what the class functions of the checker return, per region
    a_i,          \* number of files analyze_all has taken
    classes,      \* ThreadingSafetyAnalyzer.classes: class name -> ClassAnalysis
    a_analyzed,   \* <<path, class, profile>> built by analyze_class, in order
    a_stdout,     \* paths analyze_file reported as unreadable
    m_file,       \* lines of the branch list file of a merge script
    m_branches,   \* branches: the list the script read from the file
    m_i,          \* number of loop steps the merge script has taken
    m_pc,         \* "idle", "loop", or "done" after the break of merge_next
    m_git         \* the git commands run so far: [cmd, branch, rc]

vars == <<script, files, strict_mode, c_pc, c_i, issues, exit_code, c_stderr,
          c_returned, c_analyzed, c_found, a_i, classes, a_analyzed, a_stdout,
          m_file, m_branches, m_i, m_pc, m_git>>

(***************************************************************************)
(* Bounds of the model.                                                    *)
(***************************************************************************)
MaxIssues == 4      \* length of the issue lists get_exit_code is applied to
MaxMembers == 3     \* member lines of the generated class bodies
MaxFiles == 3       \* length of the path list of a run
MaxLines == 3       \* lines of the generated line-rule texts
MaxRegionLines == 4 \* lines of the generated multi-class texts

(***************************************************************************)
(* Tokens.                                                                 *)
(***************************************************************************)
Punct == {"{", "}", "(", ")", ";", ":", ".", "&", "*", "<", ">", ",", "~",
          "std::", "public:", "private:", "protected:", "//"}

\* \w+ : a token that is a run of word characters
IsWord(t) == t \notin Punct

Min(a, b) == IF a < b THEN a ELSE b
Max(a, b) == IF a > b THEN a ELSE b

\* '\n'.join(lines) seen as one token sequence
RECURSIVE Flat(_)
Flat(lines) ==
    IF lines = <<>> THEN <<>> ELSE Head(lines) \o Flat(Tail(lines))

\* lines[a:b] of Python (0-based, b exclusive), already clipped by the caller
Slice(lines, a, b) == SubSeq(lines, a + 1, b)

\* least index >= i of s holding token t, 0 when there is none
RECURSIVE FirstTok(_, _, _)
FirstTok(s, i, t) ==
    IF i > Len(s) THEN 0
    ELSE IF s[i] = t THEN i
    ELSE FirstTok(s, i + 1, t)

\* s has token t at index i
At(s, i, t) == i >= 1 /\ i <= Len(s) /\ s[i] = t
WordAt(s, i) == i >= 1 /\ i <= Len(s) /\ IsWord(s[i])

\* str.lower() of a token (the tokens of the model that hold capitals)
Lower(t) ==
    CASE t = "Callback" -> "callback"
      [] t = "onCallback" -> "oncallback"
      [] t = "SDL_LockMutex" -> "sdl_lockmutex"
      [] t = "SDL_LockSurface" -> "sdl_locksurface"
      [] t = "Start" -> "start"
      [] t = "Lock" -> "lock"
      [] t = "Order" -> "order"
      [] t = "A" -> "a"
      [] t = "B" -> "b"
      [] t = "C" -> "c"
      [] OTHER -> t

\* <<token, key>>: key is a substring of token
SubstringTable ==
    { <<"callback", "callback">>, <<"oncallback", "callback">>,
      <<"m_callback", "callback">>,
      <<"lock", "lock">>, <<"unlock", "lock">>, <<"lock_guard", "lock">>,
      <<"unique_lock", "lock">>, <<"shared_lock", "lock">>,
      <<"foo_unlocked", "lock">>, <<"lock_unlocked", "lock">>,
      <<"pthread_mutex_lock", "lock">>, <<"sdl_lockmutex", "lock">>,
      <<"sdl_locksurface", "lock">>,
      <<"order", "order">>, <<"acquisition", "acquisition">>,
      <<"const", "const">>, <<"mutable", "mutable">> }

\* key in s
Contains(s, key) ==
    \E i \in 1..Len(s) : <<s[i], key>> \in SubstringTable

\* key in s.lower()
ContainsLower(s, key) ==
    \E i \in 1..Len(s) : <<Lower(s[i]), key>> \in SubstringTable

(***************************************************************************)
(* The regular expressions of the two scripts, over token sequences.       *)
(***************************************************************************)
\* <[^>]+> opening at index i: the index of its '>', 0 when it does not match
AngleClose(s, i) ==
    IF ~At(s, i, "<") THEN 0
    ELSE LET j == FirstTok(s, i + 1, ">") IN IF j >= i + 2 THEN j ELSE 0

\* r'std::lock_guard<[^>]+>\s+\w+\(([^)]+)\)' and its unique_lock, shared_lock
\* forms (check_threading_patterns.py), matching at index i
GuardAt(kind, s, i) ==
    /\ At(s, i, "std::") /\ At(s, i + 1, kind)
    /\ LET j == AngleClose(s, i + 2) IN
         /\ j # 0
         /\ WordAt(s, j + 1) /\ At(s, j + 2, "(")
         /\ LET k == FirstTok(s, j + 3, ")") IN k >= j + 4

\* r'std::lock_guard<[^>]+>\s+\w+\((\w+)\)' (analyze_threading_safety.py)
GuardWordAt(kind, s, i) ==
    /\ At(s, i, "std::") /\ At(s, i + 1, kind)
    /\ LET j == AngleClose(s, i + 2) IN
         /\ j # 0
         /\ WordAt(s, j + 1) /\ At(s, j + 2, "(")
         /\ WordAt(s, j + 3) /\ At(s, j + 4, ")")

\* r'(\w+)\.lock\(\)' and r'(\w+)\.unlock\(\)'
DotCallAt(name, s, i) ==
    /\ WordAt(s, i) /\ At(s, i + 1, ".") /\ At(s, i + 2, name)
    /\ At(s, i + 3, "(") /\ At(s, i + 4, ")")

\* r'pthread_mutex_lock\(&(\w+)\)' and r'pthread_mutex_unlock\(&(\w+)\)'
AmpCallAt(name, s, i) ==
    /\ At(s, i, name) /\ At(s, i + 1, "(") /\ At(s, i + 2, "&")
    /\ WordAt(s, i + 3) /\ At(s, i + 4, ")")

\* r'SDL_LockMutex\((\w+)\)' and r'SDL_UnlockMutex\((\w+)\)'
WordCallAt(name, s, i) ==
    /\ At(s, i, name) /\ At(s, i + 1, "(") /\ WordAt(s, i + 2)
    /\ At(s, i + 3, ")")

\* r'SDL_LockSurface\([^)]+\)' and r'SDL_UnlockSurface\([^)]+\)'
AnyCallAt(name, s, i) ==
    /\ At(s, i, name) /\ At(s, i + 1, "(")
    /\ LET k == FirstTok(s, i + 2, ")") IN k >= i + 3

\* self.lock_acquisition_patterns of the checker, by position in the list
NumLockPatterns == 7
LockPatternAt(p, s, i) ==
    CASE p = 1 -> DotCallAt("lock", s, i)
      [] p = 2 -> GuardAt("lock_guard", s, i)
      [] p = 3 -> GuardAt("unique_lock", s, i)
      [] p = 4 -> GuardAt("shared_lock", s, i)
      [] p = 5 -> AmpCallAt("pthread_mutex_lock", s, i)
      [] p = 6 -> WordCallAt("SDL_LockMutex", s, i)
      [] OTHER -> AnyCallAt("SDL_LockSurface", s, i)

\* re.search(pattern, s) for the p-th lock acquisition pattern
LockPatternIn(p, s) == \E i \in 1..Len(s) : LockPatternAt(p, s, i)

\* any(re.search(pattern, s) for pattern, _ in self.lock_acquisition_patterns)
HasLock(s) == \E p \in 1..NumLockPatterns : LockPatternIn(p, s)

\* self.manual_unlock_patterns of the checker, by position in the list
NumUnlockPatterns == 4
UnlockPatternIn(p, s) ==
    \E i \in 1..Len(s) :
        CASE p = 1 -> DotCallAt("unlock", s, i)
          [] p = 2 -> AmpCallAt("pthread_mutex_unlock", s, i)
          [] p = 3 -> WordCallAt("SDL_UnlockMutex", s, i)
          [] OTHER -> AnyCallAt("SDL_UnlockSurface", s, i)

\* re.search(r'std::(lock_guard|unique_lock|shared_lock)', s)
HasRaii(s) ==
    \E i \in 1..Len(s) :
        /\ At(s, i, "std::")
        /\ i + 1 <= Len(s)
        /\ s[i + 1] \in {"lock_guard", "unique_lock", "shared_lock"}

\* self.lock_patterns of the analyzer, by position in the list
NumAnalyzerLockPatterns == 7
AnalyzerLockPatternIn(p, s) ==
    \E i \in 1..Len(s) :
        CASE p = 1 -> DotCallAt("lock", s, i)
          [] p = 2 -> GuardWordAt("lock_guard", s, i)
          [] p = 3 -> GuardWordAt("unique_lock", s, i)
          [] p = 4 -> GuardWordAt("shared_lock", s, i)
          [] p = 5 -> AmpCallAt("pthread_mutex_lock", s, i)
          [] p = 6 -> WordCallAt("SDL_LockMutex", s, i)
          [] OTHER -> At(s, i, "SDL_LockSurface") /\ At(s, i + 1, "(")

\* r'(\w+)\s*\([^)]*\)\s*(?:const)?\s*[{;]' matching with its name at index i
MethodAt(s, i) ==
    /\ WordAt(s, i) /\ At(s, i + 1, "(")
    /\ LET k == FirstTok(s, i + 2, ")") IN
         /\ k # 0
         /\ \/ At(s, k + 1, "{") \/ At(s, k + 1, ";")
            \/ (At(s, k + 1, "const") /\ (At(s, k + 2, "{") \/ At(s, k + 2, ";")))

\* re.search of the method signature on a line: index of group(1), 0 for None
RECURSIVE MethodFrom(_, _)
MethodFrom(s, i) ==
    IF i > Len(s) THEN 0
    ELSE IF MethodAt(s, i) THEN i
    ELSE MethodFrom(s, i + 1)

method_match(line) == MethodFrom(line, 1)

\* r'class\s+(\w+)(?:\s*:\s*[^{]+)?\s*{' matching at index i: the index of
\* its '{', 0 when it does not match
ClassHeaderEnd(s, i) ==
    IF ~(At(s, i, "class") /\ WordAt(s, i + 1)) THEN 0
    ELSE IF At(s, i + 2, "{") THEN i + 2
    ELSE IF At(s, i + 2, ":")
         THEN LET j == FirstTok(s, i + 3, "{") IN IF j >= i + 4 THEN j ELSE 0
    ELSE 0

\* re.finditer of the class header over content: the matches' start indices,
\* left to right, the search resuming after each match
RECURSIVE class_matches_from(_, _)
class_matches_from(s, i) ==
    IF i > Len(s) THEN <<>>
    ELSE LET e == ClassHeaderEnd(s, i) IN
         IF e # 0 THEN <<i>> \o class_matches_from(s, e + 1)
         ELSE class_matches_from(s, i + 1)

class_matches(s) == class_matches_from(s, 1)

(***************************************************************************)
(* Class regions.                                                          *)
(***************************************************************************)
\* the loop of extract_class_content (and of analyze_file) from index i on:
\* the index of the '}' that ends the region, 0 when the loop runs out
RECURSIVE BraceWalk(_, _, _, _)
BraceWalk(s, i, brace_count, in_class) ==
    IF i > Len(s) THEN 0
    ELSE IF s[i] = "{" THEN BraceWalk(s, i + 1, brace_count + 1, TRUE)
    ELSE IF s[i] = "}"
         THEN IF in_class /\ brace_count - 1 = 0 THEN i
              ELSE BraceWalk(s, i + 1, brace_count - 1, in_class)
    ELSE BraceWalk(s, i + 1, brace_count, in_class)

\* class_end of extract_class_content(content, start_pos), 0 for "return None"
extract_class_content(s, start_pos) ==
    LET class_end == BraceWalk(s, start_pos, 0, FALSE) IN
    IF class_end > start_pos THEN class_end ELSE 0

\* content[a:b+1].split('\n') for the tokens a..b of Flat(lines): the lines
\* from the one that holds token a to the one that holds token b, the first
\* cut before a and the last cut after b; off counts the tokens before line l
RECURSIVE RegionFrom(_, _, _, _, _)
RegionFrom(lines, l, off, a, b) ==
    IF l > Len(lines) \/ off >= b THEN <<>>
    ELSE LET n == Len(lines[l]) IN
         IF off + n < a THEN RegionFrom(lines, l + 1, off + n, a, b)
         ELSE <<SubSeq(lines[l], Max(1, a - off), Min(n, b - off))>>
              \o RegionFrom(lines, l + 1, off + n, a, b)

RegionLines(lines, a, b) == RegionFrom(lines, 1, 0, a, b)

(***************************************************************************)
(* ThreadingPatternChecker (check_threading_patterns.py).                  *)
(***************************************************************************)
\* ThreadingIssue; message and suggestion hold the names the f-strings insert
ThreadingIssue(severity, file_path, line_number, message, suggestion, rule_id) ==
    [severity |-> severity, file_path |-> file_path,
     line_number |-> line_number, message |-> message,
     suggestion |-> suggestion, rule_id |-> rule_id]

\* add_issue putting the new issue in front of the list
add_issue_front(iss, severity, file_path, line_number, message, suggestion, rule_id) ==
    <<ThreadingIssue(severity, file_path, line_number, message, suggestion, rule_id)>>
    \o iss

\* add_issue: self.issues.append(issue)
add_issue(iss, severity, file_path, line_number, message, suggestion, rule_id) ==
    Append(iss, ThreadingIssue(severity, file_path, line_number, message,
                               suggestion, rule_id))

\* context windows of the line rules
ManualBefore == 10
ManualAfter == 10
ConstBefore == 20
ConstAfter == 5

\* check_manual_lock_unlock, line i (0-based), patterns p..: the issues added
RECURSIVE ManualLine(_, _, _, _, _)
ManualLine(iss, file_path, lines, i, p) ==
    IF p > NumUnlockPatterns THEN iss
    ELSE LET context_start == Max(0, i - ManualBefore)
             context_end == Min(Len(lines), i + ManualAfter)
             context == Flat(Slice(lines, context_start, context_end))
             hit == UnlockPatternIn(p, lines[i + 1]) /\ ~HasRaii(context)
         IN ManualLine(
              IF hit
              THEN add_issue(iss, "ERROR", file_path, i + 1, <<>>, <<>>,
                             "MANUAL_LOCK_UNLOCK")
              ELSE iss,
              file_path, lines, i, p + 1)

RECURSIVE ManualFrom(_, _, _, _)
ManualFrom(iss, file_path, lines, i) ==
    IF i >= Len(lines) THEN iss
    ELSE ManualFrom(ManualLine(iss, file_path, lines, i, 1), file_path, lines, i + 1)

check_manual_lock_unlock(iss, file_path, lines) ==
    ManualFrom(iss, file_path, lines, 0)

\* number of lock acquisition patterns a line matches
lock_count(line) ==
    Cardinality({p \in 1..NumLockPatterns : LockPatternIn(p, line)})

\* re.search(r'lock.*order|acquisition.*order', line.lower())
HasLockOrderDoc(line) ==
    \E i \in 1..Len(line) : \E j \in (i + 1)..Len(line) :
        /\ \/ <<Lower(line[i]), "lock">> \in SubstringTable
           \/ <<Lower(line[i]), "acquisition">> \in SubstringTable
        /\ <<Lower(line[j]), "order">> \in SubstringTable

check_lock_ordering(iss, file_path, lines) ==
    LET has_multiple_locks == \E i \in 1..Len(lines) : lock_count(lines[i]) > 1
        has_lock_order_doc == \E i \in 1..Len(lines) : HasLockOrderDoc(lines[i])
    IN IF has_multiple_locks /\ ~has_lock_order_doc
       THEN add_issue(iss, "WARNING", file_path, 1, <<>>, <<>>,
                      "MISSING_LOCK_ORDER_DOC")
       ELSE iss

RECURSIVE CallbackFrom(_, _, _, _)
CallbackFrom(iss, file_path, lines, i) ==
    IF i >= Len(lines) THEN iss
    ELSE LET line_stripped == lines[i + 1]
             has_lock == HasLock(line_stripped)
         IN CallbackFrom(
              IF has_lock /\ ContainsLower(line_stripped, "callback")
              THEN add_issue(iss, "ERROR", file_path, i + 1, <<>>, <<>>,
                             "CALLBACK_UNDER_LOCK")
              ELSE iss,
              file_path, lines, i + 1)

check_callback_safety(iss, file_path, lines) ==
    CallbackFrom(iss, file_path, lines, 0)

RECURSIVE ConstFrom(_, _, _, _)
ConstFrom(iss, file_path, lines, i) ==
    IF i >= Len(lines) THEN iss
    ELSE LET line_stripped == lines[i + 1]
             context_start == Max(0, i - ConstBefore)
             context_end == Min(Len(lines), i + ConstAfter)
             context == Flat(Slice(lines, context_start, context_end))
             hit == /\ Contains(line_stripped, "const")
                    /\ HasLock(line_stripped)
                    /\ ~Contains(context, "mutable")
         IN ConstFrom(
              IF hit
              THEN add_issue(iss, "WARNING", file_path, i + 1, <<>>, <<>>,
                             "CONST_METHOD_LOCK")
              ELSE iss,
              file_path, lines, i + 1)

check_const_method_locking(iss, file_path, lines) ==
    ConstFrom(iss, file_path, lines, 0)

(***************************************************************************)
(* The public/private pattern check of the checker.                        *)
(***************************************************************************)
\* method_name[0].isupper() for the words of the model
IsUpperInitial(w) ==
    w \in {"A", "B", "C", "Callback", "Start", "SDL_LockMutex", "SDL_LockSurface"}

\* f"{method_name}_unlocked"
Unlocked(method_name) == method_name \o "_unlocked"

\* the method names of the model that carry no _unlocked suffix
BaseNames == {"foo", "bar", "lock"}

\* method_name.endswith('_unlocked'), and the \w+_unlocked of the regex
EndsWithUnlocked(w) == \E b \in BaseNames : w = Unlocked(b)

\* method_acquires_locks(class_content, method_name, start_line)
MethodWindowBefore == 2
MethodWindowAfter == 20
method_acquires_locks(lines, method_name, start_line) ==
    LET context_start == Max(0, start_line - MethodWindowBefore)
        context_end == Min(Len(lines), start_line + MethodWindowAfter)
    IN HasLock(Flat(Slice(lines, context_start, context_end)))

\* find_public_lock_methods from line i (0-based) on: <<method_name, line>>
RECURSIVE PublicLockFrom(_, _, _, _)
PublicLockFrom(lines, i, current_access, methods) ==
    IF i >= Len(lines) THEN methods
    ELSE LET line_stripped == lines[i + 1]
             k == method_match(line_stripped)
             method_name == line_stripped[k]
         IN IF At(line_stripped, 1, "public:")
            THEN PublicLockFrom(lines, i + 1, "public", methods)
            ELSE IF At(line_stripped, 1, "private:") \/ At(line_stripped, 1, "protected:")
            THEN PublicLockFrom(lines, i + 1, "private", methods)
            ELSE IF /\ current_access = "public"
                    /\ k # 0
                    /\ ~(method_name = "operator" \/ IsUpperInitial(method_name))
                    /\ method_acquires_locks(lines, method_name, i)
            THEN PublicLockFrom(lines, i + 1, current_access,
                                Append(methods, <<method_name, i + 1>>))
            ELSE PublicLockFrom(lines, i + 1, current_access, methods)

find_public_lock_methods(lines) == PublicLockFrom(lines, 0, "private", <<>>)

\* re.search(r'(\w+_unlocked)\s*\([^)]*\)', line): index of group(1), 0 for None
RECURSIVE UnlockedFrom(_, _)
UnlockedFrom(s, i) ==
    IF i > Len(s) THEN 0
    ELSE IF /\ EndsWithUnlocked(s[i]) /\ At(s, i + 1, "(")
            /\ FirstTok(s, i + 2, ")") # 0
         THEN i
    ELSE UnlockedFrom(s, i + 1)

\* find_private_unlocked_methods from line i (0-based) on: a set of names
RECURSIVE PrivateUnlockedFrom(_, _, _, _)
PrivateUnlockedFrom(lines, i, current_access, methods) ==
    IF i >= Len(lines) THEN methods
    ELSE LET line_stripped == lines[i + 1]
             k == UnlockedFrom(line_stripped, 1)
         IN IF At(line_stripped, 1, "public:")
            THEN PrivateUnlockedFrom(lines, i + 1, "public", methods)
            ELSE IF At(line_stripped, 1, "private:")
            THEN PrivateUnlockedFrom(lines, i + 1, "private", methods)
            ELSE IF At(line_stripped, 1, "protected:")
            THEN PrivateUnlockedFrom(lines, i + 1, "protected", methods)
            ELSE IF current_access = "private" /\ k # 0
            THEN PrivateUnlockedFrom(lines, i + 1, current_access,
                                     methods \cup {line_stripped[k]})
            ELSE PrivateUnlockedFrom(lines, i + 1, current_access, methods)

\* find_private_unlocked_methods with the access state ignored
find_private_unlocked_methods_anyaccess(lines) ==
    {lines[l][UnlockedFrom(lines[l], 1)] :
        l \in {j \in 1..Len(lines) : UnlockedFrom(lines[j], 1) # 0}}

find_private_unlocked_methods(lines) ==
    PrivateUnlockedFrom(lines, 0, "private", {})

\* <<token, name>>: the token ends with name without being name
SuffixTable == { <<"unlock", "lock">>, <<"pthread_mutex_lock", "lock">> }

\* re.search(rf'{other_method}\s*\(', class_content)
CallIn(other_method, s) ==
    \E i \in 1..Len(s) :
        /\ s[i] = other_method \/ <<s[i], other_method>> \in SuffixTable
        /\ At(s, i + 1, "(")

\* check_public_method_calls: the loops over public_methods from m, o on
RECURSIVE PublicCallsFrom(_, _, _, _, _, _)
PublicCallsFrom(iss, file_path, lines, public_methods, m, o) ==
    IF m > Len(public_methods) THEN iss
    ELSE IF o > Len(public_methods)
    THEN PublicCallsFrom(iss, file_path, lines, public_methods, m + 1, 1)
    ELSE LET method_name == public_methods[m][1]
             line_num == public_methods[m][2]
             other_method == public_methods[o][1]
         IN PublicCallsFrom(
              IF other_method # method_name /\ CallIn(other_method, Flat(lines))
              THEN add_issue(iss, "WARNING", file_path, line_num,
                             <<method_name, other_method>>, <<other_method>>,
                             "PUBLIC_CALLS_PUBLIC")
              ELSE iss,
              file_path, lines, public_methods, m, o + 1)

check_public_method_calls(iss, file_path, lines, public_methods) ==
    PublicCallsFrom(iss, file_path, lines, public_methods, 1, 1)

\* the loop "for method_name, line_num in public_lock_methods" from m on
RECURSIVE MissingFrom(_, _, _, _, _)
MissingFrom(iss, file_path, public_lock_methods, private_unlocked_methods, m) ==
    IF m > Len(public_lock_methods) THEN iss
    ELSE LET method_name == public_lock_methods[m][1]
             line_num == public_lock_methods[m][2]
             expected_private == Unlocked(method_name)
         IN MissingFrom(
              IF expected_private \notin private_unlocked_methods
              THEN add_issue(iss, "ERROR", file_path, line_num,
                             <<method_name, expected_private>>, <<method_name>>,
                             "MISSING_UNLOCKED_METHOD")
              ELSE iss,
              file_path, public_lock_methods, private_unlocked_methods, m + 1)

\* self.mutex_declaration_patterns: a list of str (not of (pattern, tag)
\* pairs as self.lock_acquisition_patterns is); the length of each element
mutex_declaration_patterns == <<49, 23, 22>>

\* re.search(self.mutex_declaration_patterns[p], class_content)
MutexDeclarationIn(p, s) ==
    \E i \in 1..Len(s) :
        CASE p = 1 -> /\ At(s, i, "std::")
                      /\ \/ At(s, i + 1, "mutex")
                         \/ At(s, i + 1, "shared_mutex")
                         \/ At(s, i + 1, "recursive_mutex")
                      /\ WordAt(s, i + 2)
          [] p = 2 -> At(s, i, "pthread_mutex_t") /\ WordAt(s, i + 1)
          [] OTHER -> At(s, i, "SDL_mutex") /\ At(s, i + 1, "*") /\ WordAt(s, i + 2)

\* "for pattern, _ in xs" unpacks an element into two names: ValueError
\* unless the element has exactly two items
UnpackPairRaises(n_items) == n_items # 2

\* analyze_class_threading_pattern: [iss, raised].  any() pulls the first
\* element of the generator, whose unpacking raises before any pattern is
\* searched for.
analyze_class_threading_pattern(iss, file_path, class_name, lines) ==
    IF /\ mutex_declaration_patterns # <<>>
       /\ UnpackPairRaises(mutex_declaration_patterns[1])
    THEN [iss |-> iss, raised |-> TRUE]
    ELSE LET has_mutex == \E p \in 1..Len(mutex_declaration_patterns) :
                              MutexDeclarationIn(p, Flat(lines))
             public_lock_methods == find_public_lock_methods(lines)
             private_unlocked_methods == find_private_unlocked_methods(lines)
             missing == MissingFrom(iss, file_path, public_lock_methods,
                                    private_unlocked_methods, 1)
         IN IF ~has_mutex THEN [iss |-> iss, raised |-> FALSE]
            ELSE [iss |-> check_public_method_calls(missing, file_path, lines,
                                                    public_lock_methods),
                  raised |-> FALSE]

\* check_public_private_pattern, class matches k.. of the list:
\* [iss, raised, analyzed]; analyzed lists the classes handed to
\* analyze_class_threading_pattern
RECURSIVE PatternFrom(_, _, _, _, _, _)
PatternFrom(iss, analyzed, file_path, lines, matches, k) ==
    IF k > Len(matches) THEN [iss |-> iss, raised |-> FALSE, analyzed |-> analyzed]
    ELSE LET content == Flat(lines)
             class_start == matches[k]
             class_name == content[class_start + 1]
             class_end == extract_class_content(content, class_start)
         IN IF class_end = 0
            THEN PatternFrom(iss, analyzed, file_path, lines, matches, k + 1)
            ELSE LET r == analyze_class_threading_pattern(
                            iss, file_path, class_name,
                            RegionLines(lines, class_start, class_end))
                     seen == Append(analyzed, <<file_path, class_name>>)
                 IN IF r.raised
                    THEN [iss |-> r.iss, raised |-> TRUE, analyzed |-> seen]
                    ELSE PatternFrom(r.iss, seen, file_path, lines, matches, k + 1)

check_public_private_pattern(iss, file_path, lines) ==
    PatternFrom(iss, <<>>, file_path, lines, class_matches(Flat(lines)), 1)

\* check_file: [iss, raised, analyzed]; raised when an exception leaves it
check_file(iss, file) ==
    IF file.kind # "ok"
    THEN [iss |-> add_issue(iss, "WARNING", file.path, 0, <<file.path>>, <<>>,
                            "FILE_READ_ERROR"),
          raised |-> FALSE, analyzed |-> <<>>]
    ELSE LET lines == file.text
             s1 == check_manual_lock_unlock(iss, file.path, lines)
             r2 == check_public_private_pattern(s1, file.path, lines)
         IN IF r2.raised THEN r2
            ELSE [iss |-> check_const_method_locking(
                            check_callback_safety(
                              check_lock_ordering(r2.iss, file.path, lines),
                              file.path, lines),
                            file.path, lines),
                  raised |-> FALSE, analyzed |-> r2.analyzed]

\* get_exit_code with the strict-mode test of the Warning branch dropped
get_exit_code_nostrict(iss, strict) ==
    LET errors == {i \in 1..Len(iss) : iss[i].severity = "ERROR"}
        warnings == {i \in 1..Len(iss) : iss[i].severity = "WARNING"}
    IN IF errors # {} THEN 2
       ELSE IF warnings # {} THEN 1
       ELSE 0

\* get_exit_code
get_exit_code(iss, strict) ==
    LET errors == {i \in 1..Len(iss) : iss[i].severity = "ERROR"}
        warnings == {i \in 1..Len(iss) : iss[i].severity = "WARNING"}
    IN IF errors # {} THEN 2
       ELSE IF warnings # {} /\ strict THEN 1
       ELSE 0

(***************************************************************************)
(* ThreadingSafetyAnalyzer (analyze_threading_safety.py).                  *)
(***************************************************************************)
\* self.mutex_patterns, by position in the list: index of group(1) of a
\* match at index i, 0 when the pattern does not match there
NumMutexPatterns == 5
MutexNameAt(p, s, i) ==
    CASE p = 1 -> IF At(s, i, "std::") /\ At(s, i + 1, "mutex") /\ WordAt(s, i + 2)
                  THEN i + 2 ELSE 0
      [] p = 2 -> IF At(s, i, "std::") /\ At(s, i + 1, "shared_mutex") /\ WordAt(s, i + 2)
                  THEN i + 2 ELSE 0
      [] p = 3 -> IF At(s, i, "std::") /\ At(s, i + 1, "recursive_mutex") /\ WordAt(s, i + 2)
                  THEN i + 2 ELSE 0
      [] p = 4 -> IF At(s, i, "pthread_mutex_t") /\ WordAt(s, i + 1)
                  THEN i + 1 ELSE 0
      [] OTHER -> IF At(s, i, "SDL_mutex") /\ At(s, i + 1, "*") /\ WordAt(s, i + 2)
                  THEN i + 2 ELSE 0

\* [m.group(1) for m in re.finditer(pattern, class_content)] from index i on
RECURSIVE MutexMatchesFrom(_, _, _)
MutexMatchesFrom(p, s, i) ==
    IF i > Len(s) THEN <<>>
    ELSE LET g == MutexNameAt(p, s, i) IN
         IF g # 0 THEN <<s[g]>> \o MutexMatchesFrom(p, s, g + 1)
         ELSE MutexMatchesFrom(p, s, i + 1)

\* the loop "for pattern in self.mutex_patterns" from pattern p on
RECURSIVE MutexMembersFrom(_, _)
MutexMembersFrom(s, p) ==
    IF p > NumMutexPatterns THEN <<>>
    ELSE MutexMatchesFrom(p, s, 1) \o MutexMembersFrom(s, p + 1)

\* find_locks_in_method(class_content, method_name): the patterns found
find_locks_in_method(s, method_name) ==
    {p \in 1..NumAnalyzerLockPatterns : AnalyzerLockPatternIn(p, s)}

\* the line loop of analyze_class from line i (0-based) on:
\* [public_lock_methods, private_unlocked_methods]
RECURSIVE MethodsFrom(_, _, _, _, _, _, _)
MethodsFrom(class_name, file_path, lines, i, current_access, plm, pum) ==
    IF i >= Len(lines)
    THEN [public_lock_methods |-> plm, private_unlocked_methods |-> pum]
    ELSE LET line_stripped == lines[i + 1]
             k == method_match(line_stripped)
             method_name == line_stripped[k]
             lock_types == find_locks_in_method(Flat(lines), method_name)
             lock_usage == [method_name |-> method_name,
                            is_public |-> current_access = "public",
                            lock_types |-> lock_types,
                            line_number |-> i + 1,
                            file_path |-> file_path]
         IN IF At(line_stripped, 1, "public:")
            THEN MethodsFrom(class_name, file_path, lines, i + 1, "public", plm, pum)
            ELSE IF At(line_stripped, 1, "private:")
            THEN MethodsFrom(class_name, file_path, lines, i + 1, "private", plm, pum)
            ELSE IF At(line_stripped, 1, "protected:")
            THEN MethodsFrom(class_name, file_path, lines, i + 1, "protected", plm, pum)
            ELSE IF k = 0 \/ method_name = class_name \/ method_name = "operator"
            THEN MethodsFrom(class_name, file_path, lines, i + 1, current_access, plm, pum)
            ELSE MethodsFrom(
                   class_name, file_path, lines, i + 1, current_access,
                   IF lock_types # {} /\ current_access = "public"
                   THEN Append(plm, lock_usage) ELSE plm,
                   IF current_access = "private" /\ EndsWithUnlocked(method_name)
                   THEN Append(pum, method_name) ELSE pum)

\* the loop of find_potential_deadlocks over public_lock_methods from m on
RECURSIVE DeadlocksFrom(_, _, _)
DeadlocksFrom(plm, pum, m) ==
    IF m > Len(plm) THEN <<>>
    ELSE LET expected_private == Unlocked(plm[m].method_name) IN
         (IF \A j \in 1..Len(pum) : pum[j] # expected_private
          THEN <<[rule |-> "MISSING_UNLOCKED_METHOD",
                  method |-> plm[m].method_name, names |-> <<expected_private>>]>>
          ELSE <<>>)
         \o DeadlocksFrom(plm, pum, m + 1)

\* find_potential_deadlocks with the private _unlocked methods ignored
find_potential_deadlocks_nopum(mutex_members, plm, pum) ==
    DeadlocksFrom(plm, <<>>, 1)
    \o (IF Len(mutex_members) > 1
        THEN <<[rule |-> "MULTIPLE_MUTEXES", method |-> "", names |-> mutex_members]>>
        ELSE <<>>)

\* find_potential_deadlocks(analysis): the messages, as [rule, method, names]
find_potential_deadlocks(mutex_members, plm, pum) ==
    DeadlocksFrom(plm, pum, 1)
    \o (IF Len(mutex_members) > 1
        THEN <<[rule |-> "MULTIPLE_MUTEXES", method |-> "", names |-> mutex_members]>>
        ELSE <<>>)

\* the ClassAnalysis that analyze_class builds
ClassAnalysis(class_name, file_path, lines) ==
    LET mutex_members == MutexMembersFrom(Flat(lines), 1)
        ms == MethodsFrom(class_name, file_path, lines, 0, "private", <<>>, <<>>)
    IN [class_name |-> class_name, file_path |-> file_path,
        mutex_members |-> mutex_members,
        public_lock_methods |-> ms.public_lock_methods,
        private_unlocked_methods |-> ms.private_unlocked_methods,
        potential_deadlocks |->
            find_potential_deadlocks(mutex_members, ms.public_lock_methods,
                                     ms.private_unlocked_methods)]

\* "Only store classes that have mutex usage"
Retained(analysis) ==
    analysis.mutex_members # <<>> \/ analysis.public_lock_methods # <<>>

\* analyze_class with the retention test dropped
analyze_class_keepall(cls, analysis) ==
    [n \in DOMAIN cls \cup {analysis.class_name} |->
        IF n = analysis.class_name THEN analysis ELSE cls[n]]

\* analyze_class: self.classes afterwards
analyze_class(cls, analysis) ==
    IF Retained(analysis)
    THEN [n \in DOMAIN cls \cup {analysis.class_name} |->
            IF n = analysis.class_name THEN analysis ELSE cls[n]]
    ELSE cls

\* analyze_file, class matches k.. of the iterator: [classes, analyzed]
RECURSIVE AnalyzeFrom(_, _, _, _, _, _)
AnalyzeFrom(cls, analyzed, file_path, lines, matches, k) ==
    IF k > Len(matches) THEN [classes |-> cls, analyzed |-> analyzed]
    ELSE LET content == Flat(lines)
             class_start == matches[k]
             class_name == content[class_start + 1]
             class_end == BraceWalk(content, class_start, 0, FALSE)
         IN IF class_end > class_start
            THEN LET analysis == ClassAnalysis(
                                   class_name, file_path,
                                   RegionLines(lines, class_start, class_end))
                 IN AnalyzeFrom(analyze_class(cls, analysis),
                                Append(analyzed, analysis),
                                file_path, lines, matches, k + 1)
            ELSE AnalyzeFrom(cls, analyzed, file_path, lines, matches, k + 1)

analyze_file(cls, analyzed, file) ==
    AnalyzeFrom(cls, analyzed, file.path, file.text,
                class_matches(Flat(file.text)), 1)

(***************************************************************************)
(* Source lines and texts the tools are run on.                            *)
(***************************************************************************)
L_class(n) == <<"class", n, "{">>
L_end == <<"}", ";">>
L_mutex(n) == <<"std::", "mutex", n, ";">>
L_public == <<"public:">>
L_decl(n) == <<"void", n, "(", ")", ";">>
L_open(n) == <<"void", n, "(", ")", "{">>
L_guard == <<"std::", "lock_guard", "<", "std::", "mutex", ">",
             "lock", "(", "m", ")", ";">>
L_guard_close == L_guard \o <<"}">>
L_inline(n) == L_open(n) \o L_guard_close
L_call(n) == <<n, "(", ")", ";">>
L_guard_call(n) == L_guard \o L_call(n)
L_empty_class(n) == L_class(n) \o L_end
L_comment(line) == <<"//">> \o line

\* the sequences over S of length lo..hi
SeqsOf(S, lo, hi) == UNION {[1..k -> S] : k \in lo..hi}

Path(k) == CASE k = 1 -> "f1.h" [] k = 2 -> "f2.h" [] k = 3 -> "f3.h"
             [] OTHER -> "f4.h"

File(k, kind, text) == [path |-> Path(k), kind |-> kind, text |-> text]

\* one path that is missing, unreadable, or holds one of the texts
OneFile(texts) ==
    {<<File(1, "missing", <<<<>>>>)>>, <<File(1, "unreadable", <<<<>>>>)>>}
    \cup {<<File(1, "ok", t)>> : t \in texts}

\* member lines of a class body
MemberLines ==
    {L_mutex("m"), L_comment(L_mutex("m")), L_public, L_decl("foo_unlocked"),
     L_decl("foo"), L_inline("foo"), L_open("foo"), L_guard_close}

\* first lines of a class: "class A {" and "class A { std::mutex m;"
ClassHeads == {L_class("A"), L_class("A") \o L_mutex("m")}

\* <head> <members> };
ClassTexts ==
    {<<h>> \o b \o <<L_end>> :
        h \in ClassHeads, b \in SeqsOf(MemberLines, 0, MaxMembers)}

\* texts of the line rules
RuleLines ==
    {L_guard_call("callback"), L_guard_call("onCallback"), L_call("callback"),
     L_guard, L_empty_class("A")}

RuleTexts == SeqsOf(RuleLines, 1, MaxLines)

\* texts with several class headers
RegionVocabulary ==
    {L_class("A"), L_class("B"), L_empty_class("C"), L_end, L_mutex("m")}

RegionTexts == SeqsOf(RegionVocabulary, 1, MaxRegionLines)

\* the files of a run over several paths
RunFileKinds ==
    {[kind |-> "missing", text |-> <<<<>>>>],
     [kind |-> "unreadable", text |-> <<<<>>>>],
     [kind |-> "ok", text |-> <<L_guard_call("callback")>>],
     [kind |-> "ok", text |-> <<L_empty_class("A")>>],
     [kind |-> "ok", text |-> <<L_class("A"), L_mutex("m"), L_end>>],
     [kind |-> "ok", text |-> <<L_class("B"), L_public, L_decl("foo"), L_end>>]}

RunFiles ==
    {[k \in 1..Len(q) |-> File(k, q[k].kind, q[k].text)] :
        q \in SeqsOf(RunFileKinds, 1, MaxFiles)}

(***************************************************************************)
(* The runs.                                                               *)
(***************************************************************************)
InitWith(F, S) ==
    /\ script \in {"check_threading_patterns", "analyze_threading_safety"}
    /\ files \in F
    /\ strict_mode \in S
    /\ c_pc = "main"
    /\ c_i = 0
    /\ issues = <<>>
    /\ exit_code = -1
    /\ c_stderr = <<>>
    /\ c_returned = <<>>
    /\ c_analyzed = <<>>
    /\ c_found = <<>>
    /\ a_i = 0
    /\ classes = [n \in {} |-> 0]
    /\ a_analyzed = <<>>
    /\ a_stdout = <<>>
    /\ m_file = <<>>
    /\ m_branches = <<>>
    /\ m_i = 0
    /\ m_pc = "idle"
    /\ m_git = <<>>

merge_vars == <<m_file, m_branches, m_i, m_pc, m_git>>
analyzer_vars == <<a_i, classes, a_analyzed, a_stdout>>
checker_vars == <<c_pc, c_i, issues, exit_code, c_stderr, c_returned, c_analyzed,
                  c_found>>

\* main(): "if os.path.exists(file_path): checker.check_file(file_path)".
\* An exception that leaves check_file ends the process with status 1.
MainCheckFile ==
    /\ script = "check_threading_patterns"
    /\ c_pc = "main"
    /\ c_i < Len(files)
    /\ files[c_i + 1].kind # "missing"
    /\ LET file == files[c_i + 1]
           r == check_file(issues, file)
       IN /\ issues' = r.iss
          /\ c_analyzed' = c_analyzed \o r.analyzed
          /\ c_pc' = IF r.raised THEN "crashed" ELSE "main"
          /\ exit_code' = IF r.raised THEN 1 ELSE exit_code
          /\ c_returned' = IF r.raised THEN c_returned
                           ELSE Append(c_returned, file.path)
    /\ c_i' = c_i + 1
    /\ UNCHANGED <<script, files, strict_mode, c_stderr, c_found>>
    /\ UNCHANGED analyzer_vars
    /\ UNCHANGED merge_vars

\* main(): "else: print(f'Warning: File ... does not exist', file=sys.stderr)"
MainMissingFile ==
    /\ script = "check_threading_patterns"
    /\ c_pc = "main"
    /\ c_i < Len(files)
    /\ files[c_i + 1].kind = "missing"
    /\ c_stderr' = Append(c_stderr, files[c_i + 1].path)
    /\ c_i' = c_i + 1
    /\ UNCHANGED <<script, files, strict_mode, c_pc, issues, exit_code, c_returned,
                   c_analyzed, c_found>>
    /\ UNCHANGED analyzer_vars
    /\ UNCHANGED merge_vars

\* main(): the report, then sys.exit(checker.get_exit_code())
MainExit ==
    /\ script = "check_threading_patterns"
    /\ c_pc = "main"
    /\ c_i = Len(files)
    /\ exit_code' = get_exit_code(issues, strict_mode)
    /\ c_pc' = "exited"
    /\ UNCHANGED <<script, files, strict_mode, c_i, issues, c_stderr, c_returned,
                   c_analyzed, c_found>>
    /\ UNCHANGED analyzer_vars
    /\ UNCHANGED merge_vars

\* analyze_all: analyze_file on the next file
AnalyzeFile ==
    /\ script = "analyze_threading_safety"
    /\ a_i < Len(files)
    /\ LET file == files[a_i + 1] IN
         IF file.kind # "ok"
         THEN /\ a_stdout' = Append(a_stdout, file.path)
              /\ UNCHANGED <<classes, a_analyzed>>
         ELSE LET r == analyze_file(classes, a_analyzed, file) IN
              /\ classes' = r.classes
              /\ a_analyzed' = r.analyzed
              /\ UNCHANGED a_stdout
    /\ a_i' = a_i + 1
    /\ UNCHANGED <<script, files, strict_mode>>
    /\ UNCHANGED checker_vars
    /\ UNCHANGED merge_vars

Next == MainCheckFile \/ MainMissingFile \/ MainExit \/ AnalyzeFile

\* runs over several paths
Init == InitWith(RunFiles, BOOLEAN)
Spec == Init /\ [][Next]_vars

\* runs on one class
InitClass == InitWith(OneFile(ClassTexts), {FALSE})
SpecClass == InitClass /\ [][Next]_vars

\* runs on one text of the line rules
InitLines == InitWith(OneFile(RuleTexts), {FALSE})
SpecLines == InitLines /\ [][Next]_vars

\* runs on one text with several class headers
InitRegion == InitWith(OneFile(RegionTexts), {FALSE})
SpecRegion == InitRegion /\ [][Next]_vars

\* a rule adds an issue of some severity
SomeIssue(severity) ==
    /\ script = "check_threading_patterns"
    /\ c_pc = "main"
    /\ Len(issues) < MaxIssues
    /\ issues' = add_issue(issues, severity, "f1.h", 1, <<>>, <<>>, "RULE")
    /\ UNCHANGED <<script, files, strict_mode, c_pc, c_i, exit_code, c_stderr,
                   c_returned, c_analyzed, c_found>>
    /\ UNCHANGED analyzer_vars
    /\ UNCHANGED merge_vars

\* get_exit_code applied to any issue list
InitExit == InitWith({<<>>}, BOOLEAN)
NextExit == (\E severity \in {"ERROR", "WARNING", "INFO"} : SomeIssue(severity)) \/ MainExit
SpecExit == InitExit /\ [][NextExit]_vars

(***************************************************************************)
(* Notions the claims are stated in.                                       *)
(***************************************************************************)
Range(q) == {q[i] : i \in 1..Len(q)}

CheckerRun == script = "check_threading_patterns"
AnalyzerRun == script = "analyze_threading_safety"

\* the issues of a rule, and those it has for one file
IssuesOf(rule_id) == {i \in 1..Len(issues) : issues[i].rule_id = rule_id}
IssuesAt(rule_id, path) ==
    {i \in IssuesOf(rule_id) : issues[i].file_path = path}

\* the messages of a rule in a ClassAnalysis
DeadlocksOf(analysis, rule) ==
    {j \in 1..Len(analysis.potential_deadlocks) :
        analysis.potential_deadlocks[j].rule = rule}

\* the text declares method name on a line of its own before any "public:"
DeclaredPrivate(text, name) ==
    \E l \in 1..Len(text) :
        /\ text[l] = L_decl(name)
        /\ \A j \in 1..(l - 1) : text[j] # L_public

\* the regions of the closed class headers of a text, in header order
ClosedRegions(text) ==
    LET content == Flat(text)
        starts == class_matches(content)
        closed == SelectSeq(starts, LAMBDA a : BraceWalk(content, a, 0, FALSE) # 0)
    IN [k \in 1..Len(closed) |->
          [class_name |-> content[closed[k] + 1],
           lines |-> RegionLines(text, closed[k],
                                 BraceWalk(content, closed[k], 0, FALSE))]]

(***************************************************************************)
(* C1.  get_exit_code returns 2 if the issue list holds an Error,          *)
(* otherwise 1 if it holds a Warning and strict mode is on, otherwise 0;   *)
(* Info issues, and Warnings outside strict mode, leave the result at 0.   *)
(***************************************************************************)
HasSeverity(sev) == \E i \in 1..Len(issues) : issues[i].severity = sev

C1_ExitCodePolicy ==
    c_pc = "exited" =>
        /\ HasSeverity("ERROR") => exit_code = 2
        /\ (~HasSeverity("ERROR") /\ HasSeverity("WARNING") /\ strict_mode)
              => exit_code = 1
        /\ (~HasSeverity("ERROR") /\ ~(HasSeverity("WARNING") /\ strict_mode))
              => exit_code = 0

C1_Witness ==
    /\ c_pc = "exited"
    /\ ~strict_mode
    /\ HasSeverity("WARNING") /\ HasSeverity("INFO") /\ ~HasSeverity("ERROR")
    /\ exit_code = 0

(***************************************************************************)
(* C2.  For every readable file text check_file runs all its rule checks   *)
(* and returns normally: no exception leaves it, the run over the          *)
(* remaining files is never aborted.                                        *)
(***************************************************************************)
C2_CheckFileReturns ==
    CheckerRun =>
        /\ c_pc # "crashed"
        /\ \A k \in 1..c_i :
              files[k].kind = "ok" => files[k].path \in Range(c_returned)

(***************************************************************************)
(* C3.  A class with one mutex member, one public method foo whose body    *)
(* holds a lock-guard construction, and no private foo_unlocked yields     *)
(* exactly one MISSING_UNLOCKED_METHOD finding, and it names foo.          *)
(***************************************************************************)
\* the texts of the claim's class: one mutex, then "public:", then foo
\* defined with a lock guard in its body, on one line or on two
C3_Class(text) ==
    /\ Len(text) >= 4
    /\ \/ text[1] = L_class("A") \o L_mutex("m") /\ SubSeq(text, 2, 2) = <<L_public>>
       \/ text[1] = L_class("A") /\ SubSeq(text, 2, 3) = <<L_mutex("m"), L_public>>
    /\ LET body == SelectSeq(SubSeq(text, 2, Len(text) - 1),
                             LAMBDA ln : ln \notin {L_mutex("m"), L_public})
       IN body \in {<<L_inline("foo")>>, <<L_open("foo"), L_guard_close>>}
    /\ text[Len(text)] = L_end

C3_OneFindingNamingFoo ==
    /\ (CheckerRun /\ c_i = 1 /\ files[1].kind = "ok" /\ C3_Class(files[1].text))
          => /\ Cardinality(IssuesOf("MISSING_UNLOCKED_METHOD")) = 1
             /\ \A i \in IssuesOf("MISSING_UNLOCKED_METHOD") :
                   issues[i].message[1] = "foo"
    /\ (AnalyzerRun /\ a_i = 1 /\ files[1].kind = "ok" /\ C3_Class(files[1].text))
          => /\ Len(a_analyzed) = 1
             /\ LET d == DeadlocksOf(a_analyzed[1], "MISSING_UNLOCKED_METHOD") IN
                  /\ Cardinality(d) = 1
                  /\ \A j \in d : a_analyzed[1].potential_deadlocks[j].method = "foo"

\* the analyzer alone, on the class whose guard has a line of its own
C3_AnalyzerOneFinding ==
    (AnalyzerRun /\ a_i = 1 /\ files[1].kind = "ok" /\ C3_Class(files[1].text))
        => /\ Len(a_analyzed) = 1
           /\ Cardinality(DeadlocksOf(a_analyzed[1], "MISSING_UNLOCKED_METHOD")) = 1

C5_ReadFailureIssue ==
    CheckerRun =>
        \A k \in 1..c_i :
            files[k].kind # "ok" =>
                /\ Cardinality(IssuesAt("FILE_READ_ERROR", files[k].path)) = 1
                /\ \A i \in IssuesAt("FILE_READ_ERROR", files[k].path) :
                      issues[i].severity = "WARNING"
                /\ c_pc # "main" => c_i = Len(files)

\* the part of C5 about the paths that do not exist
C5_MissingPathIssue ==
    CheckerRun =>
        \A k \in 1..c_i :
            files[k].kind = "missing" =>
                Cardinality(IssuesAt("FILE_READ_ERROR", files[k].path)) = 1

(***************************************************************************)
(* C6.  Every ClassProfile kept in the result set has at least one mutex   *)
(* member or at least one public lock method.                              *)
(***************************************************************************)
C6_RetentionRule ==
    \A n \in DOMAIN classes :
        classes[n].mutex_members # <<>> \/ classes[n].public_lock_methods # <<>>

C6_Witness ==
    /\ AnalyzerRun /\ a_i = Len(files)
    /\ \E k \in 1..Len(a_analyzed) :
          /\ a_analyzed[k].mutex_members = <<>>
          /\ a_analyzed[k].public_lock_methods = <<>>
          /\ a_analyzed[k].class_name \notin DOMAIN classes
    /\ \E n \in DOMAIN classes : classes[n].mutex_members # <<>>

(***************************************************************************)
(* C7.  A class yields exactly one MULTIPLE_MUTEXES Warning listing all    *)
(* its mutex names when it has more than one distinct mutex member         *)
(* identifier, and none when it has only one, however often that one is    *)
(* matched in the class text.                                               *)
(***************************************************************************)
C7_MultipleMutexes ==
    AnalyzerRun =>
        \A k \in 1..Len(a_analyzed) :
            LET p == a_analyzed[k]
                names == Range(p.mutex_members)
                d == DeadlocksOf(p, "MULTIPLE_MUTEXES")
            IN /\ Cardinality(names) > 1 =>
                    /\ Cardinality(d) = 1
                    /\ \A j \in d : Range(p.potential_deadlocks[j].names) = names
               /\ Cardinality(names) <= 1 => d = {}

(***************************************************************************)
(* C9.  A line that holds both a lock-acquisition construct and the        *)
(* substring "callback" (any letter case) gives exactly one                *)
(* CALLBACK_UNDER_LOCK Error with that line's 1-based number; a line that  *)
(* lacks either gives none.                                                 *)
(***************************************************************************)
\* the lines of the model that hold a lock guard and "callback"
LockAndCallbackLines == {L_guard_call("callback"), L_guard_call("onCallback")}

CallbackIssuesAt(l) ==
    {i \in IssuesOf("CALLBACK_UNDER_LOCK") : issues[i].line_number = l}

C9_CallbackUnderLock ==
    (CheckerRun /\ c_i = 1 /\ files[1].kind = "ok") =>
        \A l \in 1..Len(files[1].text) :
            IF files[1].text[l] \in LockAndCallbackLines
            THEN /\ Cardinality(CallbackIssuesAt(l)) = 1
                 /\ \A i \in CallbackIssuesAt(l) : issues[i].severity = "ERROR"
            ELSE CallbackIssuesAt(l) = {}

\* the same, for the files check_file returned from
C9_CallbackUnderLockWhenReturned ==
    (CheckerRun /\ c_i = 1 /\ files[1].kind = "ok" /\ c_returned # <<>>) =>
        \A l \in 1..Len(files[1].text) :
            IF files[1].text[l] \in LockAndCallbackLines
            THEN /\ Cardinality(CallbackIssuesAt(l)) = 1
                 /\ \A i \in CallbackIssuesAt(l) : issues[i].severity = "ERROR"
            ELSE CallbackIssuesAt(l) = {}

(***************************************************************************)
(* C8.  Determinism of scanning relates the issue sequences of two runs    *)
(* on the same text.  check_file is an operator of the text and the issue  *)
(* list, so within one behaviour the statement is the reflexivity of =;    *)
(* it is a property of pairs of behaviours and has no formula here.        *)
(***************************************************************************)

(***************************************************************************)
(* C10.  The region of a class header ends at the first "}" at which the   *)
(* brace depth counted from the header (+1 on "{", -1 on "}") is back to   *)
(* zero; a header with no such "}" yields no region and no issues, and     *)
(* the other class headers of the file are still analyzed.                 *)
(***************************************************************************)
\* occurrences of token t in s[a..b]
Count(s, a, b, t) == Cardinality({j \in a..b : s[j] = t})

\* the first "}" after a at which as many "{" as "}" were met since a; 0 if none
RegionEnd(s, a) ==
    LET E == {e \in (a + 1)..Len(s) :
                /\ s[e] = "}"
                /\ Count(s, a, e, "{") = Count(s, a, e, "}")
                /\ \A j \in a..(e - 1) :
                      s[j] = "}" => Count(s, a, j, "{") # Count(s, a, j, "}")}
    IN IF E = {} THEN 0 ELSE CHOOSE e \in E : \A f \in E : e <= f

\* <<class name, region lines>> of the headers of a text that have a region
ExpectedRegions(text) ==
    LET content == Flat(text)
        starts == class_matches(content)
        closed == SelectSeq(starts, LAMBDA a : RegionEnd(content, a) # 0)
    IN [k \in 1..Len(closed) |->
          <<content[closed[k] + 1],
            Flat(RegionLines(text, closed[k], RegionEnd(content, closed[k])))>>]

ExpectedNames(text) ==
    [k \in 1..Len(ExpectedRegions(text)) |-> ExpectedRegions(text)[k][1]]

\* some class header of the text has no region
HasUnclosedHeader(text) ==
    \E k \in 1..Len(class_matches(Flat(text))) :
        RegionEnd(Flat(text), class_matches(Flat(text))[k]) = 0

ClassRuleIds == {"MISSING_UNLOCKED_METHOD", "PUBLIC_CALLS_PUBLIC"}

C10_UnclosedHeaderSkipped ==
    (files[1].kind = "ok" /\ HasUnclosedHeader(files[1].text)) =>
        /\ (AnalyzerRun /\ a_i = 1) =>
              [k \in 1..Len(a_analyzed) |-> a_analyzed[k].class_name]
                  = ExpectedNames(files[1].text)
        /\ (CheckerRun /\ c_i = 1) =>
              /\ [k \in 1..Len(c_analyzed) |-> c_analyzed[k][2]]
                    = ExpectedNames(files[1].text)
              /\ ExpectedNames(files[1].text) = <<>> =>
                    \A i \in 1..Len(issues) : issues[i].rule_id \notin ClassRuleIds

\* the analyzer alone: every header with a region is profiled, in header
\* order, and no header without one is
C10_AnalyzerRegions ==
    (AnalyzerRun /\ a_i = 1 /\ files[1].kind = "ok") =>
        [k \in 1..Len(a_analyzed) |-> a_analyzed[k].class_name]
            = ExpectedNames(files[1].text)

\* extract_class_content ends the region where the depth is back to zero
C10_RegionEnd ==
    files[1].kind = "ok" =>
        \A k \in 1..Len(class_matches(Flat(files[1].text))) :
            LET a == class_matches(Flat(files[1].text))[k] IN
            extract_class_content(Flat(files[1].text), a) = RegionEnd(Flat(files[1].text), a)

(***************************************************************************)
(* The class functions of the checker, applied to class regions.           *)
(***************************************************************************)
MaxAccessLines == 4   \* body lines of the texts with access labels

L_private == <<"private:">>
L_protected == <<"protected:">>
\* "}; class n {": one class ends and the next begins
L_next(n) == L_end \o L_class(n)

\* class A { <body> };  the body may close A and open B
AccessLines ==
    {L_public, L_private, L_protected, L_decl("foo_unlocked"), L_next("B")}

AccessTexts ==
    {<<L_class("A")>> \o b \o <<L_end>> : b \in SeqsOf(AccessLines, 0, MaxAccessLines)}

MaxSkipLines == 3   \* body lines of the texts with constructors and operators

\* "~n() { std::lock_guard<std::mutex> lock(m); }"
L_inline_dtor(n) == <<"~", n, "(", ")", "{">> \o L_guard_close

\* methods defined with a lock guard on their line; A is the class name
SkipLines ==
    {L_public, L_private, L_inline("Start"), L_inline("foo"), L_inline("A"),
     L_inline("operator"), L_inline_dtor("A")}

SkipTexts ==
    {<<L_class("A")>> \o b \o <<L_end>> : b \in SeqsOf(SkipLines, 0, MaxSkipLines)}

MaxCallLines == 3   \* body lines of the texts with two public lock methods

\* "void n() { std::lock_guard<std::mutex> lock(m); o(); }"
L_calls(n, o) == L_open(n) \o L_guard \o L_call(o) \o <<"}">>

CallLines ==
    {L_public, L_inline("foo"), L_inline("bar"), L_calls("foo", "bar")}

CallTexts ==
    {<<L_class("A")>> \o b \o <<L_end>> : b \in SeqsOf(CallLines, 0, MaxCallLines)}

UnitTexts == AccessTexts \cup SkipTexts \cup CallTexts

\* analyze_class_threading_pattern from line 155 on, for the next
\* brace-closed region of files[1]: what find_public_lock_methods and
\* find_private_unlocked_methods return, and the issues that the loop over
\* public_lock_methods and check_public_method_calls add
ClassFunctions ==
    /\ script = "check_threading_patterns"
    /\ c_pc = "main"
    /\ files # <<>>
    /\ files[1].kind = "ok"
    /\ LET regions == ClosedRegions(files[1].text) IN
         /\ Len(c_found) < Len(regions)
         /\ LET r == regions[Len(c_found) + 1]
                public_lock_methods == find_public_lock_methods(r.lines)
                private_unlocked_methods == find_private_unlocked_methods(r.lines)
            IN c_found' = Append(c_found,
                 [class_name |-> r.class_name,
                  lines |-> r.lines,
                  public_lock_methods |-> public_lock_methods,
                  private_unlocked_methods |-> private_unlocked_methods,
                  issues |-> check_public_method_calls(
                               MissingFrom(<<>>, files[1].path, public_lock_methods,
                                           private_unlocked_methods, 1),
                               files[1].path, r.lines, public_lock_methods)])
    /\ UNCHANGED <<script, files, strict_mode, c_pc, c_i, issues, exit_code,
                   c_stderr, c_returned, c_analyzed>>
    /\ UNCHANGED analyzer_vars
    /\ UNCHANGED merge_vars

\* the class functions of both scripts on one text
InitUnit == InitWith({<<File(1, "ok", t)>> : t \in UnitTexts}, {FALSE})
NextUnit == ClassFunctions \/ AnalyzeFile
SpecUnit == InitUnit /\ [][NextUnit]_vars

(***************************************************************************)
(* C11.  The access state is Private at the top of every class region,     *)
(* changes only on access-specifier label lines, and a method name is      *)
(* added to the private unlocked methods only if it ends in _unlocked and  *)
(* its line is walked while the state is Private: an _unlocked method      *)
(* under public: or protected: is never counted.                           *)
(***************************************************************************)
LabelLine(ln) == ln # <<>> /\ ln[1] \in {"public:", "private:", "protected:"}

\* the label in force at line l of a region: the last label line above it,
\* "private:" when there is none
AccessAt(region, l) ==
    LET above == {j \in 1..(l - 1) : LabelLine(region[j])} IN
    IF above = {} THEN "private:"
    ELSE region[CHOOSE j \in above : \A h \in above : h <= j][1]

\* name stands on a line of the region that is walked in the Private state
WalkedPrivate(region, name) ==
    \E l \in 1..Len(region) :
        /\ ~LabelLine(region[l])
        /\ AccessAt(region, l) = "private:"
        /\ name \in Range(region[l])

C11_PrivateUnlockedOnly ==
    /\ CheckerRun =>
          \A k \in 1..Len(c_found) :
              \A name \in c_found[k].private_unlocked_methods :
                  /\ EndsWithUnlocked(name)
                  /\ WalkedPrivate(c_found[k].lines, name)
    /\ (AnalyzerRun /\ a_i = 1 /\ files[1].kind = "ok") =>
          \A k \in 1..Len(a_analyzed) :
              \A name \in Range(a_analyzed[k].private_unlocked_methods) :
                  /\ EndsWithUnlocked(name)
                  /\ WalkedPrivate(ClosedRegions(files[1].text)[k].lines, name)

\* class A declares foo_unlocked under public: and it is not counted; class
\* B, which follows, declares it with no label above and it is counted
C11_Witness ==
    /\ CheckerRun
    /\ Len(c_found) = 2
    /\ L_public \in Range(c_found[1].lines)
    /\ L_decl("foo_unlocked") \in Range(c_found[1].lines)
    /\ c_found[1].private_unlocked_methods = {}
    /\ c_found[2].private_unlocked_methods = {"foo_unlocked"}

(***************************************************************************)
(* C12.  A matched method signature is skipped only when its identifier    *)
(* equals the class name, starts with "~" or is the word "operator";       *)
(* every other signature found in a public section with a lock-acquisition *)
(* construct in its search window is recorded as a public lock method,     *)
(* whatever the letter case of its name.                                   *)
(***************************************************************************)
\* the method names of the texts that are not the class name A or "operator"
KeptNames == {"foo", "Start"}

\* line l of the region defines a method of KeptNames with a lock guard on
\* the same line, and is walked in the Public state
PublicLockLine(region, l) ==
    /\ AccessAt(region, l) = "public:"
    /\ \E n \in KeptNames : region[l] = L_inline(n)

C12_PublicLockRecorded ==
    /\ CheckerRun =>
          \A k \in 1..Len(c_found) :
              \A l \in 1..Len(c_found[k].lines) :
                  PublicLockLine(c_found[k].lines, l) =>
                      <<c_found[k].lines[l][2], l>>
                          \in Range(c_found[k].public_lock_methods)
    /\ (AnalyzerRun /\ a_i = 1 /\ files[1].kind = "ok") =>
          \A k \in 1..Len(a_analyzed) :
              LET region == ClosedRegions(files[1].text)[k].lines IN
              \A l \in 1..Len(region) :
                  PublicLockLine(region, l) =>
                      \E j \in 1..Len(a_analyzed[k].public_lock_methods) :
                          /\ a_analyzed[k].public_lock_methods[j].method_name = region[l][2]
                          /\ a_analyzed[k].public_lock_methods[j].line_number = l

\* the analyzer alone records them, and skips the class name and "operator"
C12_AnalyzerRecords ==
    (AnalyzerRun /\ a_i = 1 /\ files[1].kind = "ok") =>
        \A k \in 1..Len(a_analyzed) :
            LET region == ClosedRegions(files[1].text)[k].lines
                plm == a_analyzed[k].public_lock_methods
            IN /\ \A l \in 1..Len(region) :
                      PublicLockLine(region, l) =>
                          \E j \in 1..Len(plm) :
                              /\ plm[j].method_name = region[l][2]
                              /\ plm[j].line_number = l
               /\ \A j \in 1..Len(plm) :
                      plm[j].method_name \notin {a_analyzed[k].class_name, "operator"}

(***************************************************************************)
(* Texts of the rules that look at the lines around a line.                *)
(***************************************************************************)
MaxManualLines == 12   \* lines of the texts with a manual unlock call
MaxConstLines == 22    \* lines of the texts with a locking const method

L_blank == <<>>
L_unlock == <<"m", ".", "unlock", "(", ")", ";">>
L_const_lock == <<"int", "get", "(", ")", "const", "{">> \o L_guard_close
L_mutable == <<"mutable", "std::", "mutex", "m", ";">>

\* n lines, blank but for line a at index i and line b at index j (b is
\* left out when j is 0 or i)
TwoLineText(n, i, a, j, b) ==
    [l \in 1..n |-> IF l = i THEN a ELSE IF l = j THEN b ELSE L_blank]

ManualTexts ==
    {TwoLineText(n, i, L_unlock, j, L_guard) :
        n \in 1..MaxManualLines, i \in 1..MaxManualLines, j \in 0..MaxManualLines}

ConstTexts ==
    {TwoLineText(n, i, L_const_lock, j, L_mutable) :
        n \in 1..MaxConstLines, i \in 1..MaxConstLines, j \in 0..MaxConstLines}

\* runs on one text of the window rules
InitWindow == InitWith(OneFile(ManualTexts \cup ConstTexts), {FALSE})
SpecWindow == InitWindow /\ [][Next]_vars

(***************************************************************************)
(* C13.  For a line at index i that matches a manual-unlock call, a        *)
(* MANUAL_LOCK_UNLOCK Error is emitted at that line exactly when no RAII   *)
(* guard construct appears on any line from i-10 through i+10 inclusive,   *)
(* clipped to the file bounds.                                             *)
(***************************************************************************)
\* the issues of a rule at line l (1-based)
RuleIssuesAt(rule_id, l) ==
    {i \in IssuesOf(rule_id) : issues[i].line_number = l}

\* some line l-before .. l+after of the text, clipped, is the line wanted
LineWithin(text, l, before, after, wanted) ==
    \E j \in Max(1, l - before)..Min(Len(text), l + after) : text[j] = wanted

C13_ManualUnlockWindow ==
    (CheckerRun /\ c_i = 1 /\ files[1].kind = "ok") =>
        \A l \in 1..Len(files[1].text) :
            files[1].text[l] = L_unlock =>
                /\ RuleIssuesAt("MANUAL_LOCK_UNLOCK", l) # {}
                      <=> ~LineWithin(files[1].text, l, 10, 10, L_guard)
                /\ \A i \in RuleIssuesAt("MANUAL_LOCK_UNLOCK", l) :
                      issues[i].severity = "ERROR"

\* what the code does: the guard is looked for from i-10 through i+9
C13_ManualUnlockWindowAsCoded ==
    (CheckerRun /\ c_i = 1 /\ files[1].kind = "ok") =>
        \A l \in 1..Len(files[1].text) :
            files[1].text[l] = L_unlock =>
                RuleIssuesAt("MANUAL_LOCK_UNLOCK", l) # {}
                    <=> ~LineWithin(files[1].text, l, 10, 9, L_guard)

(***************************************************************************)
(* C14.  For a line at index i that holds the word "const" and a           *)
(* lock-acquisition construct, a CONST_METHOD_LOCK Warning is emitted at   *)
(* that line exactly when "mutable" occurs on no line from i-20 through    *)
(* i+5 inclusive, clipped to the file bounds.                              *)
(***************************************************************************)
C14_ConstMethodWindow ==
    (CheckerRun /\ c_i = 1 /\ files[1].kind = "ok") =>
        \A l \in 1..Len(files[1].text) :
            files[1].text[l] = L_const_lock =>
                /\ RuleIssuesAt("CONST_METHOD_LOCK", l) # {}
                      <=> ~LineWithin(files[1].text, l, 20, 5, L_mutable)
                /\ \A i \in RuleIssuesAt("CONST_METHOD_LOCK", l) :
                      issues[i].severity = "WARNING"

\* what the code does: "mutable" is looked for from i-20 through i+4
C14_ConstMethodWindowAsCoded ==
    (CheckerRun /\ c_i = 1 /\ files[1].kind = "ok") =>
        \A l \in 1..Len(files[1].text) :
            files[1].text[l] = L_const_lock =>
                RuleIssuesAt("CONST_METHOD_LOCK", l) # {}
                    <=> ~LineWithin(files[1].text, l, 20, 4, L_mutable)

(***************************************************************************)
(* Texts of the lock-ordering rule.                                        *)
(***************************************************************************)
MaxOrderLines == 3   \* lines of the texts of the lock-ordering rule

\* a lock guard and a call of .lock() on one line: two constructs
L_two_locks == L_guard \o <<"m", ".", "lock", "(", ")", ";">>
\* "// lock order : a b", "// Lock Order", "// acquisition order"
L_doc_lock == <<"//", "lock", "order", ":", "a", "b">>
L_doc_upper == <<"//", "Lock", "Order">>
L_doc_acquisition == <<"//", "acquisition", "order">>
\* "lock(); order();": the two words, but not the phrase
L_lock_then_order == L_call("lock") \o L_call("order")

OrderLines ==
    {L_two_locks, L_guard, L_doc_lock, L_doc_upper, L_doc_acquisition,
     L_lock_then_order}

OrderTexts == SeqsOf(OrderLines, 1, MaxOrderLines)

\* runs on one text of the lock-ordering rule
InitOrder == InitWith(OneFile(OrderTexts), {FALSE})
SpecOrder == InitOrder /\ [][Next]_vars

(***************************************************************************)
(* C15.  For each file MISSING_LOCK_ORDER_DOC is emitted at most once,     *)
(* with line number 1, and exactly when some single line matches two or    *)
(* more distinct lock-acquisition constructs and no line of the file       *)
(* holds the phrase "lock order" or "acquisition order" in any letter      *)
(* case.                                                                   *)
(***************************************************************************)
\* the line holds "lock order" or "acquisition order", in any letter case
HasOrderPhrase(line) ==
    \E i \in 1..(Len(line) - 1) :
        /\ Lower(line[i]) \in {"lock", "acquisition"}
        /\ Lower(line[i + 1]) = "order"

C15_LockOrderDoc ==
    (CheckerRun /\ c_i = 1 /\ files[1].kind = "ok") =>
        LET found == IssuesOf("MISSING_LOCK_ORDER_DOC")
            text == files[1].text
        IN /\ Cardinality(found) <= 1
           /\ \A i \in found : issues[i].line_number = 1
           /\ found # {} <=>
                 /\ \E l \in 1..Len(text) : text[l] = L_two_locks
                 /\ \A l \in 1..Len(text) : ~HasOrderPhrase(text[l])

\* the same on the texts without the line "lock(); order();"
C15_LockOrderDocOnPhrases ==
    (CheckerRun /\ c_i = 1 /\ files[1].kind = "ok"
       /\ L_lock_then_order \notin Range(files[1].text)) =>
        LET found == IssuesOf("MISSING_LOCK_ORDER_DOC")
            text == files[1].text
        IN /\ Cardinality(found) <= 1
           /\ \A i \in found : issues[i].line_number = 1
           /\ found # {} <=>
                 /\ \E l \in 1..Len(text) : text[l] = L_two_locks
                 /\ \A l \in 1..Len(text) : ~HasOrderPhrase(text[l])

(***************************************************************************)
(* C16.  Over any sequence of check_file calls on one checker the issue    *)
(* list only grows: the list before a step is a prefix of the list after   *)
(* it, and every issue of an earlier-processed file precedes every issue   *)
(* of a later-processed file.                                              *)
(***************************************************************************)
\* the position in the path list of the file an issue is about
FileIndex(path) == CHOOSE k \in 1..Len(files) : files[k].path = path

IssuesInFileOrder ==
    \A i \in 1..Len(issues) : \A j \in (i + 1)..Len(issues) :
        FileIndex(issues[i].file_path) <= FileIndex(issues[j].file_path)

IssuesExtended ==
    /\ Len(issues) <= Len(issues')
    /\ SubSeq(issues', 1, Len(issues)) = issues

C16_IssuesAppendOnly ==
    /\ [][CheckerRun => IssuesExtended]_vars
    /\ [](CheckerRun /\ files # <<>> => IssuesInFileOrder)

\* three files were scanned, the first and the last of which gave an issue
C16_Witness ==
    /\ CheckerRun
    /\ c_i = 3
    /\ Len(issues) >= 2
    /\ issues[1].file_path = files[1].path
    /\ issues[Len(issues)].file_path = files[3].path

(***************************************************************************)
(* C17.  A PUBLIC_CALLS_PUBLIC Warning for public lock method m naming     *)
(* another public lock method o is emitted only when an invocation of o    *)
(* occurs within m's own vicinity; two public lock methods that never      *)
(* call each other give no PUBLIC_CALLS_PUBLIC issue.                      *)
(***************************************************************************)
\* the body of method m, on m's line of the region, calls o
CallsWithin(region, m, o) ==
    \E l \in 1..Len(region) : region[l] = L_calls(m, o)

C17_PublicCallsPublic ==
    CheckerRun =>
        \A k \in 1..Len(c_found) :
            \A i \in 1..Len(c_found[k].issues) :
                LET issue == c_found[k].issues[i] IN
                issue.rule_id = "PUBLIC_CALLS_PUBLIC" =>
                    CallsWithin(c_found[k].lines, issue.message[1], issue.message[2])

(***************************************************************************)
(* C18.  After analyzing any sequence of files the result set of the       *)
(* analyzer holds one ClassProfile for every detected class region that    *)
(* passed the retention rule: a stored profile is never replaced or lost   *)
(* when a later region has the same class name.                            *)
(***************************************************************************)
C18_ProfilePerRegion ==
    AnalyzerRun =>
        \A k \in 1..Len(a_analyzed) :
            (a_analyzed[k].mutex_members # <<>>
               \/ a_analyzed[k].public_lock_methods # <<>>)
                => \E n \in DOMAIN classes : classes[n] = a_analyzed[k]

(***************************************************************************)
(* The merge scripts (merge_next.py, auto_merge.py,                        *)
(* auto_merge_advanced.py).                                                *)
(***************************************************************************)
MaxBranches == 2   \* branches named in the list file

BranchName(k) == CASE k = 1 -> "b1" [] k = 2 -> "b2" [] OTHER -> "b3"

\* [x.strip() for x in f.readlines() if x.strip() and x.strip() != '1-CURRENT']
RECURSIVE ReadBranches(_)
ReadBranches(file_lines) ==
    IF file_lines = <<>> THEN <<>>
    ELSE IF Head(file_lines) \in {"", "1-CURRENT"} THEN ReadBranches(Tail(file_lines))
    ELSE <<Head(file_lines)>> \o ReadBranches(Tail(file_lines))

\* the list files: n branch names, bare, under the line 1-CURRENT, or with
\* an empty line at the end
BranchFiles ==
    UNION {LET names == [k \in 1..n |-> BranchName(k)] IN
           {names, <<"1-CURRENT">> \o names, names \o <<"">>} : n \in 0..MaxBranches}

\* subprocess.run([...]).returncode
ReturnCodes == {0, 1}

\* one subprocess.run(['git', ...]) and its return code
Git(cmd, branch, rc) == [cmd |-> cmd, branch |-> branch, rc |-> rc]

\* merge_next.py:15  ['1-CURRENT'] + branches[i+1:]
WrittenOnMerge(branches, i) ==
    <<"1-CURRENT">> \o SubSeq(branches, i + 2, Len(branches))

\* merge_next.py:19 with the conflicting branch left out
WrittenOnConflictDropped(branches, i) ==
    <<"1-CURRENT">> \o SubSeq(branches, i + 2, Len(branches))

\* merge_next.py:19  ['1-CURRENT'] + branches[i:]
WrittenOnConflict(branches, i) ==
    <<"1-CURRENT">> \o SubSeq(branches, i + 1, Len(branches))

\* the paths git status can report as unmerged, and the sets of them
UnmergedPaths == {"claude-code-review.yml", "MethodHandler.cpp", "other"}
AllowedPaths == {"claude-code-review.yml", "MethodHandler.cpp"}

\* merge_next.py: one pass of the loop body
MergeNextStep ==
    /\ script = "merge_next"
    /\ m_pc = "loop"
    /\ m_i < Len(m_branches)
    /\ LET b == m_branches[m_i + 1] IN
       \E rc_merge \in ReturnCodes, rc_push \in ReturnCodes :
         IF rc_merge = 0
         THEN /\ m_git' = m_git \o <<Git("merge --abort", b, 0), Git("merge", b, 0),
                                     Git("push", b, rc_push),
                                     Git("push --delete", b, 0)>>
              /\ m_file' = WrittenOnMerge(m_branches, m_i)
              /\ m_i' = m_i + 1
              /\ m_pc' = "loop"
         ELSE /\ m_git' = m_git \o <<Git("merge --abort", b, 0),
                                     Git("merge", b, rc_merge)>>
              /\ m_file' = WrittenOnConflict(m_branches, m_i)
              /\ m_i' = m_i
              /\ m_pc' = "done"
    /\ UNCHANGED <<script, files, strict_mode, m_branches>>
    /\ UNCHANGED checker_vars
    /\ UNCHANGED analyzer_vars

\* auto_merge.py: the commands of one pass of the loop body on branch b
AutoMergeCommands(b, rc_rev, rc_merge, unmerged, rc_commit, rc_push) ==
    IF rc_rev # 0 THEN <<Git("rev-parse", b, rc_rev)>>
    ELSE <<Git("rev-parse", b, 0), Git("merge --abort", b, 0),
           Git("merge", b, rc_merge)>>
         \o (IF rc_merge = 0
             THEN <<Git("push", b, rc_push), Git("push --delete", b, 0)>>
             ELSE <<Git("status", b, 0)>>
                  \o (IF unmerged = {"claude-code-review.yml"}
                      THEN <<Git("rm", b, 0), Git("commit", b, rc_commit),
                             Git("push", b, rc_push)>>
                           \o (IF rc_push = 0
                               THEN <<Git("push --delete", b, 0)>>
                               ELSE <<Git("reset --hard", b, 0)>>)
                      ELSE <<Git("merge --abort", b, 0)>>))

AutoMergeStep ==
    /\ script = "auto_merge"
    /\ m_pc = "loop"
    /\ m_i < Len(m_branches)
    /\ \E rc_rev \in ReturnCodes, rc_merge \in ReturnCodes,
          unmerged \in SUBSET UnmergedPaths,
          rc_commit \in ReturnCodes, rc_push \in ReturnCodes :
         m_git' = m_git \o AutoMergeCommands(m_branches[m_i + 1], rc_rev, rc_merge,
                                             unmerged, rc_commit, rc_push)
    /\ m_i' = m_i + 1
    /\ UNCHANGED <<script, files, strict_mode, m_file, m_branches, m_pc>>
    /\ UNCHANGED checker_vars
    /\ UNCHANGED analyzer_vars

\* auto_merge_advanced.py: the commands of one pass of the loop body on
\* branch b; marker_remains is '"<<<<<<< HEAD" in content' after the two
\* substitutions in MethodHandler.cpp
AdvancedResolveCommands(b, unmerged, marker_remains, rc_commit, rc_push) ==
    LET rm == IF "claude-code-review.yml" \in unmerged
              THEN <<Git("rm", b, 0)>> ELSE <<>>
        commit == <<Git("commit", b, rc_commit)>>
                  \o (IF rc_commit = 0
                      THEN <<Git("push", b, rc_push)>>
                           \o (IF rc_push = 0
                               THEN <<Git("push --delete", b, 0)>>
                               ELSE <<Git("reset --hard", b, 0)>>)
                      ELSE <<Git("merge --abort", b, 0)>>)
    IN IF ~(unmerged \subseteq AllowedPaths)
       THEN <<Git("merge --abort", b, 0)>>
       ELSE IF "MethodHandler.cpp" \in unmerged
       THEN IF marker_remains
            THEN rm \o <<Git("merge --abort", b, 0), Git("checkout", b, 0)>>
            ELSE rm \o <<Git("add", b, 0)>> \o commit
       ELSE rm \o commit

AutoMergeAdvancedCommands(b, rc_rev, rc_merge, unmerged, marker_remains, rc_commit, rc_push) ==
    IF rc_rev # 0 THEN <<Git("rev-parse", b, rc_rev)>>
    ELSE <<Git("rev-parse", b, 0), Git("merge --abort", b, 0),
           Git("merge", b, rc_merge)>>
         \o (IF rc_merge = 0
             THEN <<Git("push", b, rc_push), Git("push --delete", b, 0)>>
             ELSE <<Git("status", b, 0)>>
                  \o AdvancedResolveCommands(b, unmerged, marker_remains,
                                             rc_commit, rc_push))

AutoMergeAdvancedStep ==
    /\ script = "auto_merge_advanced"
    /\ m_pc = "loop"
    /\ m_i < Len(m_branches)
    /\ \E rc_rev \in ReturnCodes, rc_merge \in ReturnCodes,
          unmerged \in SUBSET UnmergedPaths, marker_remains \in BOOLEAN,
          rc_commit \in ReturnCodes, rc_push \in ReturnCodes :
         m_git' = m_git \o AutoMergeAdvancedCommands(
                              m_branches[m_i + 1], rc_rev, rc_merge, unmerged,
                              marker_remains, rc_commit, rc_push)
    /\ m_i' = m_i + 1
    /\ UNCHANGED <<script, files, strict_mode, m_file, m_branches, m_pc>>
    /\ UNCHANGED checker_vars
    /\ UNCHANGED analyzer_vars

\* a merge script started on a list file, the file read
InitMerge ==
    /\ script \in {"merge_next", "auto_merge", "auto_merge_advanced"}
    /\ files = <<>>
    /\ strict_mode = FALSE
    /\ c_pc = "main"
    /\ c_i = 0
    /\ issues = <<>>
    /\ exit_code = -1
    /\ c_stderr = <<>>
    /\ c_returned = <<>>
    /\ c_analyzed = <<>>
    /\ c_found = <<>>
    /\ a_i = 0
    /\ classes = [n \in {} |-> 0]
    /\ a_analyzed = <<>>
    /\ a_stdout = <<>>
    /\ m_file \in BranchFiles
    /\ m_branches = ReadBranches(m_file)
    /\ m_i = 0
    /\ m_pc = "loop"
    /\ m_git = <<>>

NextMerge == MergeNextStep \/ AutoMergeStep \/ AutoMergeAdvancedStep
SpecMerge == InitMerge /\ [][NextMerge]_vars

(***************************************************************************)
(* C19.  In the merge scripts the remote branch b is deleted               *)
(* (git push origin --delete b) only after the merge of b was committed    *)
(* and the push of that merge succeeded, for every branch and every        *)
(* combination of git command outcomes.                                    *)
(***************************************************************************)
\* the command at index p of the log deletes a branch whose merge, earlier
\* in the log, was committed and then pushed with success
DeletedAfterPush(p) ==
    \E r \in 1..(p - 1) :
        /\ m_git[r].cmd = "merge"
        /\ m_git[r].branch = m_git[p].branch
        /\ \/ m_git[r].rc = 0
           \/ \E c \in (r + 1)..(p - 1) :
                 m_git[c].cmd = "commit" /\ m_git[c].rc = 0
        /\ \E q \in (r + 1)..(p - 1) : m_git[q].cmd = "push" /\ m_git[q].rc = 0
        /\ \A q \in (r + 1)..(p - 1) : m_git[q].cmd = "push" => m_git[q].rc = 0

C19_DeleteOnlyAfterPush ==
    \A p \in 1..Len(m_git) :
        m_git[p].cmd = "push --delete" => DeletedAfterPush(p)

\* the auto-resolve path of auto_merge_advanced.py alone
C19_AdvancedResolvePath ==
    \A p \in 1..Len(m_git) :
        (/\ script = "auto_merge_advanced"
         /\ m_git[p].cmd = "push --delete"
         /\ \E r \in 1..(p - 1) : /\ m_git[r].cmd = "merge"
                                  /\ m_git[r].branch = m_git[p].branch
                                  /\ m_git[r].rc # 0)
            => DeletedAfterPush(p)

(***************************************************************************)
(* C20.  merge_next.py processes the branches in list order and stops at   *)
(* the first branch whose merge fails: after each loop step                *)
(* remaining_branches.txt holds '1-CURRENT' followed by exactly the        *)
(* not-yet-merged suffix of the list in its order, the conflicting branch  *)
(* included, and no branch after the first conflict is merged, pushed or   *)
(* deleted.                                                                *)
(***************************************************************************)
\* the branches of the commands cmd in the log, in the order they ran
BranchesOf(cmd) ==
    LET sel == SelectSeq(m_git, LAMBDA g : g.cmd = cmd)
    IN [k \in 1..Len(sel) |-> sel[k].branch]

\* the branches the loop has reached: the merged ones, and the conflicting
\* one when the loop has stopped
ReachedCount == m_i + (IF m_pc = "done" THEN 1 ELSE 0)

C20_RemainingBranches ==
    script = "merge_next" =>
        /\ (m_i > 0 \/ m_pc = "done") =>
               m_file = <<"1-CURRENT">>
                        \o SubSeq(m_branches, m_i + 1, Len(m_branches))
        /\ BranchesOf("merge") = SubSeq(m_branches, 1, ReachedCount)
        /\ BranchesOf("push") = SubSeq(m_branches, 1, m_i)
        /\ BranchesOf("push --delete") = SubSeq(m_branches, 1, m_i)
        /\ \A p \in 1..Len(m_git) :
              m_git[p].cmd = "merge" =>
                  (m_git[p].rc # 0 <=>
                      /\ m_pc = "done"
                      /\ m_git[p].branch = m_branches[m_i + 1])
        /\ m_pc = "done" => ~ENABLED MergeNextStep

C20_Witness ==
    /\ script = "merge_next"
    /\ m_branches = <<"b1", "b2">>
    /\ m_pc = "done"
    /\ m_i = 1
    /\ m_file = <<"1-CURRENT", "b2">>
    /\ BranchesOf("push --delete") = <<"b1">>

====
